---- MODULE Spec2Model ----
(***************************************************************************)
(* A model of unifi_client.py: the UnifiAPIClient class (login, the read   *)
(* and action operations, the statistics wrappers, the category and        *)
(* application map extractor) and the module-level script that enriches    *)
(* the DPI statistics.                                                     *)
(*                                                                         *)
(* Python values are written as follows.  None and optional arguments:     *)
(* None is <<>> and a present value v is <<v>>.  A list is a sequence, a   *)
(* dict with string keys a record, a dict with integer keys a function.    *)
(* A URL is the string the code concatenates.  The outcome of a call is a  *)
(* record: [kind |-> "return", value |-> v] or [kind |-> "raise", ...].    *)
(***************************************************************************)
EXTENDS Integers, Sequences, FiniteSets, TLC

\* ----------------------------------------------------------------- bounds
MaxSessions == 2      \* requests.Session() objects created in one run
MaxAttrs == 2         \* length of a caller-chosen stat_attributes list
MaxAssetLen == 6      \* tokens in the script asset the controller serves
MaxDevices == 2       \* device records in the DPI response of the script
MaxStats == 1         \* by_app entries of one device record

\* -------------------------------------------------------- program values
HTTP_OK == 200

None == <<>>
Some(v) == <<v>>

all_stat_attributes ==
    <<"bytes", "wan-tx_bytes", "wan-rx_bytes", "wlan_bytes", "num_sta",
      "lan-num_sta", "wlan-num_sta", "time", "rx_bytes", "tx_bytes">>

supported_intervals == <<"5minutes", "hourly", "daily">>

supported_element_types == <<"site", "user", "ap">>

default_angular_build == "g9491db021"

\* x in list, for a Python list
InList(x, list) == \E i \in 1..Len(list) : list[i] = x

\* ------------------------------------------------------ input universes
ClientIds == {"unifi_client", "client_b"}

BaseUrls == {"https://ctl:8443", "http://other"}

Usernames == {"admin"}

Passwords == {"p@ss word"}

Statuses == {200, 401, 500}

Sites == {"default", ""}

\* a response body: the text of a JSON document, or text that is not JSON
Dumps(doc) == [text |-> "json", doc |-> doc]

NotJson == [text |-> "<html>", doc |-> [data |-> <<>>]]

EmptyDoc == [data |-> <<>>]

Bodies == {NotJson, Dumps(EmptyDoc)}

\* what the controller answers: 200 with a body, or an error page
Responses(bodies) ==
    {[status |-> HTTP_OK, body |-> b] : b \in bodies}
    \cup {[status |-> s, body |-> NotJson] : s \in Statuses \ {HTTP_OK}}

MacFilters == {None, Some(<<>>), Some(<<"aa:bb">>)}

CategoryFilters == {None, Some(<<13>>)}

\* --------------------------------------------------------------- state
VARIABLES
    unifi_controller_url,   \* the module global set on line 447
    clients,                \* variable name -> None or Some(the object's fields)
    sessions,               \* sessions[s]: the session created s-th, its login status
    last,                   \* the call that ran last: what it sent, how it ended
    asset,                  \* the text the controller serves as dynamic.dpi.js
    pending,                \* the call a caller is about to make (one-call runs)
    pc,                     \* the line the module-level script is at
    app_stats,              \* script variables of lines 454-462
    cat_map,
    app_map

vars == <<unifi_controller_url, clients, sessions, last, asset, pending,
          pc, app_stats, cat_map, app_map>>

clientVars == <<unifi_controller_url, clients, sessions>>

scriptVars == <<pc, app_stats, cat_map, app_map>>

NoCall == [op |-> "none", client |-> "none", args |-> <<>>, reqs |-> <<>>,
           outcome |-> [kind |-> "none"]]

\* ------------------------------------------------------------ outcomes
Return(v) == [kind |-> "return", value |-> v]

\* raise UnifiAPIClientException(err_msg): what err_msg names
RaiseClientException(label, endpoint, status) ==
    [kind |-> "raise", exc |-> "UnifiAPIClientException", label |-> label,
     endpoint |-> endpoint, status |-> status, expected |-> 200]

RaiseValueError(what, value) ==
    [kind |-> "raise", exc |-> "ValueError", what |-> what, value |-> value]

\* response.json()
response_json(body) ==
    IF body.text = "json"
    THEN Return(body.doc)
    ELSE [kind |-> "raise", exc |-> "JSONDecodeError"]

\* ------------------------------------------------------------ __init__
\* a login check that takes only 401 for a failed login
login_failed_only_401(status) == status = 401

login_failed(status) == status # HTTP_OK

Construct(c, controller_url, authentication_username, authentication_password) ==
    /\ Len(sessions) < MaxSessions
    /\ \E status \in Statuses :
         LET s == Len(sessions) + 1
             self == [_controller_url |-> controller_url,
                      _controller_requests_session |-> s]
             url_login == unifi_controller_url \o "/api/login"
             credentials == [username |-> authentication_username,
                             password |-> authentication_password]
             req == [session |-> s, method |-> "POST", url |-> url_login,
                     data |-> credentials, status |-> status]
         IN /\ sessions' = Append(sessions, [login |-> status])
            /\ clients' = IF login_failed(status)
                          THEN clients
                          ELSE [clients EXCEPT ![c] = Some(self)]
            /\ last' = [op |-> "__init__", client |-> c,
                        args |-> [controller_url |-> controller_url],
                        reqs |-> <<req>>,
                        outcome |-> IF login_failed(status)
                                    THEN RaiseClientException("Login failed", url_login, status)
                                    ELSE Return(self)]
    /\ UNCHANGED unifi_controller_url

\* ------------------------------------------- the request every operation makes
\* a status check that lets every status below 500 through
status_check_below_500(label, url, status, body) ==
    IF status >= 500
    THEN RaiseClientException(label, url, status)
    ELSE response_json(body)

status_check(label, url, status, body) ==
    IF status # HTTP_OK
    THEN RaiseClientException(label, url, status)
    ELSE response_json(body)

\* an operation that throws the client's session away when the status is not 200
Perform_drops_session(c, op, args, method, url, data, label, status, body) ==
    /\ clients[c] # None
    /\ LET self == clients[c][1]
           req == [session |-> self._controller_requests_session,
                   method |-> method, url |-> url, data |-> data,
                   status |-> status, body |-> body]
       IN /\ last' = [op |-> op, client |-> c, args |-> args, reqs |-> <<req>>,
                      outcome |-> IF status # HTTP_OK
                                  THEN RaiseClientException(label, url, status)
                                  ELSE response_json(body)]
          /\ clients' = IF status # HTTP_OK
                        THEN [clients EXCEPT ![c] = None]
                        ELSE clients
    /\ UNCHANGED <<unifi_controller_url, sessions>>

\* one request through the client's session, then the status check
Perform(c, op, args, method, url, data, label, status, body) ==
    /\ clients[c] # None
    /\ LET self == clients[c][1]
           req == [session |-> self._controller_requests_session,
                   method |-> method, url |-> url, data |-> data,
                   status |-> status, body |-> body]
       IN last' = [op |-> op, client |-> c, args |-> args, reqs |-> <<req>>,
                   outcome |-> status_check(label, url, status, body)]
    /\ UNCHANGED clientVars

get_sites(c) ==
    \E r \in Responses(Bodies) :
        Perform(c, "get_sites", <<>>, "GET",
                unifi_controller_url \o "/api/self/sites", None,
                "sites endpoint", r.status, r.body)

get_devices_for_site(c, site) ==
    \E r \in Responses(Bodies) :
        Perform(c, "get_devices_for_site", [site |-> site], "GET",
                unifi_controller_url \o "/api/s/" \o site \o "/stat/device", None,
                "site devicess endpoint", r.status, r.body)

get_devices_for_default_site(c) == get_devices_for_site(c, "default")

\* a validation that looks at the first attribute only
stat_validation_first_attribute(interval, element_type, stat_attributes) ==
    IF ~InList(interval, supported_intervals)
    THEN Some(RaiseValueError("interval", interval))
    ELSE IF ~InList(element_type, supported_element_types)
    THEN Some(RaiseValueError("element type", element_type))
    ELSE IF Len(stat_attributes) > 0 /\ ~InList(stat_attributes[1], all_stat_attributes)
    THEN Some(RaiseValueError("stat attribute", stat_attributes[1]))
    ELSE None

\* a validation that also refuses an empty attribute list
stat_validation_refuses_empty(interval, element_type, stat_attributes) ==
    IF ~InList(interval, supported_intervals)
    THEN Some(RaiseValueError("interval", interval))
    ELSE IF ~InList(element_type, supported_element_types)
    THEN Some(RaiseValueError("element type", element_type))
    ELSE IF stat_attributes = <<>>
    THEN Some(RaiseValueError("stat attribute", "none given"))
    ELSE IF \E i \in 1..Len(stat_attributes) :
                ~InList(stat_attributes[i], all_stat_attributes)
    THEN Some(RaiseValueError("stat attribute", "unsupported"))
    ELSE None

\* ------------------------------------------------- get_stats_for_site
\* lines 127-133: None when every check passes, else Some(the ValueError)
stat_validation(interval, element_type, stat_attributes) ==
    IF ~InList(interval, supported_intervals)
    THEN Some(RaiseValueError("interval", interval))
    ELSE IF ~InList(element_type, supported_element_types)
    THEN Some(RaiseValueError("element type", element_type))
    ELSE IF \E i \in 1..Len(stat_attributes) :
                ~InList(stat_attributes[i], all_stat_attributes)
    THEN LET i == CHOOSE j \in 1..Len(stat_attributes) :
                    /\ ~InList(stat_attributes[j], all_stat_attributes)
                    /\ \A k \in 1..(j - 1) :
                           InList(stat_attributes[k], all_stat_attributes)
         IN Some(RaiseValueError("stat attribute", stat_attributes[i]))
    ELSE None

\* lines 138-146
stat_request_parameters(stat_attributes, start_epoch_timestamp_ms, end_epoch_timestamp_ms, filter_mac_list) ==
    [attrs |-> stat_attributes]
    @@ (IF start_epoch_timestamp_ms # None
        THEN [start |-> start_epoch_timestamp_ms[1]] ELSE <<>>)
    @@ (IF end_epoch_timestamp_ms # None
        THEN [end |-> end_epoch_timestamp_ms[1]] ELSE <<>>)
    @@ (IF filter_mac_list # None /\ Len(filter_mac_list[1]) > 0
        THEN [macs |-> filter_mac_list[1]] ELSE <<>>)

\* entry is the method the caller invoked: get_stats_for_site or a wrapper
stats_call(entry, c, site, interval, element_type, stat_attributes, start_epoch_timestamp_ms, end_epoch_timestamp_ms, filter_mac_list) ==
    LET args == [site |-> site, interval |-> interval,
                 element_type |-> element_type,
                 stat_attributes |-> stat_attributes,
                 start |-> start_epoch_timestamp_ms,
                 end |-> end_epoch_timestamp_ms,
                 macs |-> filter_mac_list]
        invalid == stat_validation(interval, element_type, stat_attributes)
    IN IF invalid # None
       THEN /\ clients[c] # None
            /\ last' = [op |-> entry, client |-> c, args |-> args,
                        reqs |-> <<>>, outcome |-> invalid[1]]
            /\ UNCHANGED clientVars
       ELSE \E r \in Responses(Bodies) :
                Perform(c, entry, args, "POST",
                        unifi_controller_url \o "/api/s/" \o site
                            \o "/stat/report/" \o interval \o "." \o element_type,
                        stat_request_parameters(stat_attributes,
                            start_epoch_timestamp_ms, end_epoch_timestamp_ms,
                            filter_mac_list),
                        "site stat endpoint", r.status, r.body)

get_stats_for_site(c, site, interval, element_type, stat_attributes, start_epoch_timestamp_ms, end_epoch_timestamp_ms, filter_mac_list) ==
    stats_call("get_stats_for_site", c, site, interval, element_type,
               stat_attributes, start_epoch_timestamp_ms,
               end_epoch_timestamp_ms, filter_mac_list)

get_5min_site_all_stats(c, site, start_epoch_timestamp_ms, end_epoch_timestamp_ms) ==
    stats_call("get_5min_site_all_stats", c, site, "5minutes", "site",
               all_stat_attributes, start_epoch_timestamp_ms,
               end_epoch_timestamp_ms, None)

get_5min_ap_all_stats(c, site, start_epoch_timestamp_ms, end_epoch_timestamp_ms) ==
    stats_call("get_5min_ap_all_stats", c, site, "5minutes", "ap",
               all_stat_attributes, start_epoch_timestamp_ms,
               end_epoch_timestamp_ms, None)

get_5min_user_all_stats(c, site, start_epoch_timestamp_ms, end_epoch_timestamp_ms) ==
    stats_call("get_5min_user_all_stats", c, site, "5minutes", "user",
               all_stat_attributes, start_epoch_timestamp_ms,
               end_epoch_timestamp_ms, None)

get_hourly_site_all_stats(c, site, start_epoch_timestamp_ms, end_epoch_timestamp_ms) ==
    stats_call("get_hourly_site_all_stats", c, site, "hourly", "site",
               all_stat_attributes, start_epoch_timestamp_ms,
               end_epoch_timestamp_ms, None)

get_hourly_ap_all_stats(c, site, start_epoch_timestamp_ms, end_epoch_timestamp_ms) ==
    stats_call("get_hourly_ap_all_stats", c, site, "hourly", "ap",
               all_stat_attributes, start_epoch_timestamp_ms,
               end_epoch_timestamp_ms, None)

get_hourly_user_all_stats(c, site, start_epoch_timestamp_ms, end_epoch_timestamp_ms) ==
    stats_call("get_hourly_user_all_stats", c, site, "hourly", "user",
               all_stat_attributes, start_epoch_timestamp_ms,
               end_epoch_timestamp_ms, None)

\* a monthly wrapper that asks for the daily report
get_monthly_site_all_stats_daily(c, site, start_epoch_timestamp_ms, end_epoch_timestamp_ms) ==
    stats_call("get_monthly_site_all_stats", c, site, "daily", "site",
               all_stat_attributes, start_epoch_timestamp_ms,
               end_epoch_timestamp_ms, None)

get_monthly_site_all_stats(c, site, start_epoch_timestamp_ms, end_epoch_timestamp_ms) ==
    stats_call("get_monthly_site_all_stats", c, site, "monthly", "site",
               all_stat_attributes, start_epoch_timestamp_ms,
               end_epoch_timestamp_ms, None)

get_monthly_ap_all_stats(c, site, start_epoch_timestamp_ms, end_epoch_timestamp_ms) ==
    stats_call("get_monthly_ap_all_stats", c, site, "monthly", "ap",
               all_stat_attributes, start_epoch_timestamp_ms,
               end_epoch_timestamp_ms, None)

get_monthly_user_all_stats(c, site, start_epoch_timestamp_ms, end_epoch_timestamp_ms) ==
    stats_call("get_monthly_user_all_stats", c, site, "monthly", "user",
               all_stat_attributes, start_epoch_timestamp_ms,
               end_epoch_timestamp_ms, None)

\* ------------------------------------------------ the other read operations
get_active_clients(c, site) ==
    \E r \in Responses(Bodies) :
        Perform(c, "get_active_clients", [site |-> site], "GET",
                unifi_controller_url \o "/api/s/" \o site \o "/stat/sta", None,
                "site active clients endpoint", r.status, r.body)

get_known_clients(c, site) ==
    \E r \in Responses(Bodies) :
        Perform(c, "get_known_clients", [site |-> site], "GET",
                unifi_controller_url \o "/api/s/" \o site \o "/rest/user", None,
                "site known clients endpoint", r.status, r.body)

DOES_NOT_WORK_get_spectrum_scan(c, site, filter_mac_list) ==
    \E r \in Responses(Bodies) :
        Perform(c, "DOES_NOT_WORK_get_spectrum_scan",
                [site |-> site, macs |-> filter_mac_list], "GET",
                unifi_controller_url \o "/api/s/" \o site \o "/stat/spectrumscan",
                None, "site spectrum scan endpoint", r.status, r.body)

get_ddns_information(c, site) ==
    \E r \in Responses(Bodies) :
        Perform(c, "get_ddns_information", [site |-> site], "GET",
                unifi_controller_url \o "/api/s/" \o site \o "/stat/dynamicdns",
                None, "site ddns info endpoint", r.status, r.body)

\* parameters["macs"] / parameters["cats"] are set for a non-empty list only
filter_parameter(key, filter_list) ==
    IF filter_list # None /\ Len(filter_list[1]) > 0
    THEN (key :> filter_list[1])
    ELSE <<>>

get_site_dpi_by_app(c, site, filter_category_list) ==
    \E r \in Responses(Bodies) :
        Perform(c, "get_site_dpi_by_app",
                [site |-> site, cats |-> filter_category_list], "POST",
                unifi_controller_url \o "/api/s/" \o site \o "/stat/sitedpi",
                [type |-> "by_app"] @@ filter_parameter("cats", filter_category_list),
                "site dpi by app info endpoint", r.status, r.body)

get_site_dpi_by_category(c, site) ==
    \E r \in Responses(Bodies) :
        Perform(c, "get_site_dpi_by_category", [site |-> site], "POST",
                unifi_controller_url \o "/api/s/" \o site \o "/stat/sitedpi",
                [type |-> "by_cat"],
                "site dpi by category info endpoint", r.status, r.body)

get_dpi_by_app(c, site, filter_mac_list, filter_category_list, bodies) ==
    \E r \in Responses(bodies) :
        Perform(c, "get_dpi_by_app",
                [site |-> site, macs |-> filter_mac_list,
                 cats |-> filter_category_list], "POST",
                unifi_controller_url \o "/api/s/" \o site \o "/stat/stadpi",
                [type |-> "by_app"] @@ filter_parameter("macs", filter_mac_list)
                    @@ filter_parameter("cats", filter_category_list),
                "site dpi by app info endpoint", r.status, r.body)

get_dpi_by_category(c, site, filter_mac_list) ==
    \E r \in Responses(Bodies) :
        Perform(c, "get_dpi_by_category",
                [site |-> site, macs |-> filter_mac_list], "POST",
                unifi_controller_url \o "/api/s/" \o site \o "/stat/stadpi",
                [type |-> "by_cat"] @@ filter_parameter("macs", filter_mac_list),
                "site dpi by category info endpoint", r.status, r.body)

\* ---------------------------------- get_category_and_application_map
\* The script asset is a sequence of tokens.  The controller serves it
\* minified; jsbeautifier.beautify puts the blank after "categories:", the
\* indentation before "applications:" and the line breaks of the closing
\* brackets, which is the layout the pattern of line 421 is written for.
CategoriesMin == "categories:"

ApplicationsMin == "applications:"

TailMin == "}},{}],2:"

Comma == ","

EntryWeb == "13:{name:'Web'}"

EntryMedia == "4:{name:'Streaming Media'}"

CategoriesKey == "categories: "

ApplicationsKey == "            applications:"

TailKey == "}\n    }, {}],\n    2:"

Entries == {EntryWeb, EntryMedia}

AssetTokens == {CategoriesMin, Comma, ApplicationsMin, TailMin, EntryWeb}

entry_id(t) == IF t = EntryWeb THEN 13 ELSE 4

entry_name(t) == IF t = EntryWeb THEN "Web" ELSE "Streaming Media"

beautify_token(t) ==
    CASE t = CategoriesMin -> CategoriesKey
      [] t = ApplicationsMin -> ApplicationsKey
      [] t = TailMin -> TailKey
      [] OTHER -> t

jsbeautifier_beautify(text) == [i \in 1..Len(text) |-> beautify_token(text[i])]

Max(S) == CHOOSE x \in S : \A y \in S : y <= x

\* re.match(".*categories: (.*),.*            applications:(.*)}\n    \}, \{\}\],\n    2\:",
\*          text, re.DOTALL): None, or Some(the groups); every .* is greedy
re_match(text) ==
    LET n == Len(text)
        Tails(k) == {l \in (k + 1)..n : text[l] = TailKey}
        Apps(j) == {k \in (j + 1)..n : text[k] = ApplicationsKey /\ Tails(k) # {}}
        Commas(i) == {j \in (i + 1)..n : text[j] = Comma /\ Apps(j) # {}}
        Cats == {i \in 1..n : text[i] = CategoriesKey /\ Commas(i) # {}}
    IN IF Cats = {}
       THEN None
       ELSE LET i == Max(Cats)
                j == Max(Commas(i))
                k == Max(Apps(j))
                l == Max(Tails(k))
            IN Some(<<SubSeq(text, i + 1, j - 1), SubSeq(text, k + 1, l - 1)>>)

PyNone == [type |-> "NoneType"]

PyDict(items) == [type |-> "dict", items |-> items]

\* yaml.load(fragment, Loader=yaml.FullLoader): an empty document is None,
\* a mapping of ids to records is a dict (a repeated key keeps its last
\* value), anything else in the fragment is a YAML error
yaml_load(fragment) ==
    IF fragment = <<>>
    THEN Return(PyNone)
    ELSE IF \/ \E i \in 1..Len(fragment) : fragment[i] \notin Entries \cup {Comma}
            \/ \A i \in 1..Len(fragment) : fragment[i] = Comma
    THEN [kind |-> "raise", exc |-> "YAMLError"]
    ELSE LET ids == {entry_id(fragment[i]) :
                        i \in {j \in 1..Len(fragment) : fragment[j] \in Entries}}
             lastOf(id) == Max({i \in 1..Len(fragment) :
                                   /\ fragment[i] \in Entries
                                   /\ entry_id(fragment[i]) = id})
         IN Return(PyDict([id \in ids |->
                              [name |-> entry_name(fragment[lastOf(id)])]]))

NoSession == 0

\* a fetch check that takes only 401 for a failed fetch
asset_fetch_failed_only_401(status) == status = 401

asset_fetch_failed(status) == status # HTTP_OK

\* an asset fetch sent through the client's session
asset_request_through_session(self, url, status) ==
    [session |-> self._controller_requests_session, method |-> "GET",
     url |-> url, data |-> None, status |-> status]

\* line 413: requests.get, a request of its own outside the client's session
asset_request(self, url, status) ==
    [session |-> NoSession, method |-> "GET", url |-> url, data |-> None,
     status |-> status]

\* an extraction that parses the second fragment for the application map
extract_maps_second_fragment(dynamic_dpi_js, text) ==
    LET beautified_dpi_js == jsbeautifier_beautify(text)
        m == re_match(beautified_dpi_js)
    IN IF m = None
       THEN [kind |-> "raise", exc |-> "AttributeError"]
       ELSE LET mg == m[1]
                network_traffic_category_map == yaml_load(mg[1])
                network_traffic_application_map == yaml_load(mg[2])
            IN IF network_traffic_category_map.kind = "raise"
               THEN network_traffic_category_map
               ELSE IF network_traffic_application_map.kind = "raise"
               THEN network_traffic_application_map
               ELSE Return(<<network_traffic_category_map.value,
                             network_traffic_application_map.value>>)

\* lines 419-431, on the text of a 200 response
extract_maps(dynamic_dpi_js, text) ==
    LET beautified_dpi_js == jsbeautifier_beautify(text)
        m == re_match(beautified_dpi_js)
    IN IF m = None
       THEN [kind |-> "raise", exc |-> "AttributeError"]
       ELSE LET mg == m[1]
                network_traffic_category_map == yaml_load(mg[1])
                network_traffic_application_map == yaml_load(mg[1])
            IN IF Len(mg) # 2
               THEN [kind |-> "raise", exc |-> "UnifiAPIClientException",
                     label |-> "could not parse dynamic dpi js lib",
                     endpoint |-> dynamic_dpi_js, found |-> Len(mg)]
               ELSE IF network_traffic_category_map.kind = "raise"
               THEN network_traffic_category_map
               ELSE Return(<<network_traffic_category_map.value,
                             network_traffic_application_map.value>>)

get_category_and_application_map(c, angular_build) ==
    /\ clients[c] # None
    /\ \E status \in Statuses :
         LET dynamic_dpi_js == unifi_controller_url \o "/manage/angular/"
                                   \o angular_build \o "/js/dynamic.dpi.js"
         IN last' = [op |-> "get_category_and_application_map", client |-> c,
                     args |-> [angular_build |-> angular_build],
                     reqs |-> <<asset_request(clients[c][1], dynamic_dpi_js, status)>>,
                     outcome |-> IF asset_fetch_failed(status)
                                 THEN RaiseClientException(
                                          "get dynamic dpi js lib",
                                          dynamic_dpi_js, status)
                                 ELSE extract_maps(dynamic_dpi_js, asset)]
    /\ UNCHANGED clientVars

\* ------------------------------------------------------- specification
\* the assets the controller serves in the runs of the API and of the script
WellFormedAsset ==
    <<CategoriesMin, EntryWeb, Comma, ApplicationsMin, EntryMedia, TailMin>>

SampleAssets ==
    { <<>>,
      WellFormedAsset,
      <<CategoriesMin, Comma, ApplicationsMin, EntryWeb, TailMin>>,
      <<CategoriesMin, EntryWeb, Comma, EntryMedia, Comma, ApplicationsMin, TailMin>> }

\* the get_stats_for_site calls tried between the other operations
ApiStatRequests ==
    { [interval |-> "daily", element_type |-> "user", stat_attributes |-> <<"bytes">>],
      [interval |-> "monthly", element_type |-> "user", stat_attributes |-> <<"bytes">>],
      [interval |-> "daily", element_type |-> "device", stat_attributes |-> <<"bytes">>],
      [interval |-> "daily", element_type |-> "user", stat_attributes |-> <<"bytes", "bogus">>],
      [interval |-> "daily", element_type |-> "user", stat_attributes |-> <<>>] }

Timestamps == {None, Some(1000)}

AngularBuilds == {default_angular_build, "g0000000"}

\* the module global holds the controller of the connection URI (line 447)
EnvControllerUrl == "https://ctl:8443"

Init ==
    /\ unifi_controller_url = EnvControllerUrl
    /\ clients = [c \in ClientIds |-> None]
    /\ sessions = <<>>
    /\ last = NoCall
    /\ asset = WellFormedAsset
    /\ pending = None
    /\ pc = "api"
    /\ app_stats = None
    /\ cat_map = None
    /\ app_map = None

otherVars == <<asset, pending, scriptVars>>

ApiConstruct ==
    /\ \E c \in ClientIds, u \in BaseUrls, n \in Usernames, p \in Passwords :
           Construct(c, u, n, p)
    /\ UNCHANGED otherVars

ApiGetSites ==
    /\ \E c \in ClientIds : get_sites(c)
    /\ UNCHANGED otherVars

ApiGetDevicesForSite ==
    /\ \E c \in ClientIds, site \in Sites : get_devices_for_site(c, site)
    /\ UNCHANGED otherVars

ApiGetDevicesForDefaultSite ==
    /\ \E c \in ClientIds : get_devices_for_default_site(c)
    /\ UNCHANGED otherVars

ApiGetStatsForSite ==
    /\ \E c \in ClientIds, site \in Sites, q \in ApiStatRequests :
           get_stats_for_site(c, site, q.interval, q.element_type,
                              q.stat_attributes, None, None, None)
    /\ UNCHANGED otherVars

ApiGetActiveClients ==
    /\ \E c \in ClientIds, site \in Sites : get_active_clients(c, site)
    /\ UNCHANGED otherVars

ApiGetKnownClients ==
    /\ \E c \in ClientIds, site \in Sites : get_known_clients(c, site)
    /\ UNCHANGED otherVars

ApiGetSpectrumScan ==
    /\ \E c \in ClientIds, site \in Sites :
           DOES_NOT_WORK_get_spectrum_scan(c, site, None)
    /\ UNCHANGED otherVars

ApiGetDdnsInformation ==
    /\ \E c \in ClientIds, site \in Sites : get_ddns_information(c, site)
    /\ UNCHANGED otherVars

ApiGetSiteDpiByApp ==
    /\ \E c \in ClientIds, site \in Sites : get_site_dpi_by_app(c, site, None)
    /\ UNCHANGED otherVars

ApiGetSiteDpiByCategory ==
    /\ \E c \in ClientIds, site \in Sites : get_site_dpi_by_category(c, site)
    /\ UNCHANGED otherVars

ApiGetDpiByApp ==
    /\ \E c \in ClientIds, site \in Sites :
           get_dpi_by_app(c, site, None, None, Bodies)
    /\ UNCHANGED otherVars

ApiGetDpiByCategory ==
    /\ \E c \in ClientIds, site \in Sites : get_dpi_by_category(c, site, None)
    /\ UNCHANGED otherVars

ApiGetCategoryAndApplicationMap ==
    /\ \E c \in ClientIds, build \in AngularBuilds :
           get_category_and_application_map(c, build)
    /\ UNCHANGED otherVars

Next ==
    \/ ApiConstruct
    \/ ApiGetSites
    \/ ApiGetDevicesForSite
    \/ ApiGetDevicesForDefaultSite
    \/ ApiGetStatsForSite
    \/ ApiGetActiveClients
    \/ ApiGetKnownClients
    \/ ApiGetSpectrumScan
    \/ ApiGetDdnsInformation
    \/ ApiGetSiteDpiByApp
    \/ ApiGetSiteDpiByCategory
    \/ ApiGetDpiByApp
    \/ ApiGetDpiByCategory
    \/ ApiGetCategoryAndApplicationMap

Spec == Init /\ [][Next]_vars

\* ------------------------------------------------------- one call
\* A run of SpecCall is one call on a logged-in client, with arguments from
\* larger sets than the runs of Spec use: Init draws the call, the action
\* makes it.
Intervals == {"5minutes", "hourly", "daily", "monthly"}

ElementTypes == {"site", "user", "ap", "device"}

Attributes == {"bytes", "time", "bogus"}

SeqsUpTo(S, n) == UNION {[1..k -> S] : k \in 0..n}

AttributeLists == SeqsUpTo(Attributes, MaxAttrs) \cup {all_stat_attributes}

WrapperNames ==
    {"get_5min_site_all_stats", "get_5min_ap_all_stats", "get_5min_user_all_stats",
     "get_hourly_site_all_stats", "get_hourly_ap_all_stats", "get_hourly_user_all_stats",
     "get_monthly_site_all_stats", "get_monthly_ap_all_stats", "get_monthly_user_all_stats"}

StatCalls ==
    {[entry |-> "get_stats_for_site", site |-> site, interval |-> i,
      element_type |-> e, stat_attributes |-> a, start |-> t1, end |-> t2,
      macs |-> m] :
        site \in Sites, i \in Intervals, e \in ElementTypes, a \in AttributeLists,
        t1 \in Timestamps, t2 \in Timestamps, m \in MacFilters}
    \cup {[entry |-> w, site |-> site, start |-> t1, end |-> t2] :
            w \in WrapperNames, site \in Sites, t1 \in Timestamps, t2 \in Timestamps}

DpiCalls ==
    {[entry |-> "get_site_dpi_by_app", site |-> site, cats |-> k] :
        site \in Sites, k \in CategoryFilters}
    \cup {[entry |-> "get_dpi_by_app", site |-> site, macs |-> m, cats |-> k] :
            site \in Sites, m \in MacFilters, k \in CategoryFilters}
    \cup {[entry |-> "get_dpi_by_category", site |-> site, macs |-> m] :
            site \in Sites, m \in MacFilters}

\* the state after unifi_client = UnifiAPIClient(unifi_controller_url, ...)
\* returned from a login answered with 200
LoggedIn ==
    /\ unifi_controller_url \in BaseUrls
    /\ sessions = <<[login |-> HTTP_OK]>>
    /\ clients = [c \in ClientIds |->
                    IF c = "unifi_client"
                    THEN Some([_controller_url |-> unifi_controller_url,
                               _controller_requests_session |-> 1])
                    ELSE None]
    /\ last = NoCall
    /\ app_stats = None
    /\ cat_map = None
    /\ app_map = None

InitCall ==
    /\ LoggedIn
    /\ asset = WellFormedAsset
    /\ pending \in StatCalls \cup DpiCalls
    /\ pc = "call"

Called == pc' = "called" /\ UNCHANGED <<asset, pending, app_stats, cat_map, app_map>>

CallGetStatsForSite ==
    /\ pc = "call" /\ pending.entry = "get_stats_for_site"
    /\ get_stats_for_site("unifi_client", pending.site, pending.interval,
                          pending.element_type, pending.stat_attributes,
                          pending.start, pending.end, pending.macs)
    /\ Called

CallGet5minSiteAllStats ==
    /\ pc = "call" /\ pending.entry = "get_5min_site_all_stats"
    /\ get_5min_site_all_stats("unifi_client", pending.site, pending.start, pending.end)
    /\ Called

CallGet5minApAllStats ==
    /\ pc = "call" /\ pending.entry = "get_5min_ap_all_stats"
    /\ get_5min_ap_all_stats("unifi_client", pending.site, pending.start, pending.end)
    /\ Called

CallGet5minUserAllStats ==
    /\ pc = "call" /\ pending.entry = "get_5min_user_all_stats"
    /\ get_5min_user_all_stats("unifi_client", pending.site, pending.start, pending.end)
    /\ Called

CallGetHourlySiteAllStats ==
    /\ pc = "call" /\ pending.entry = "get_hourly_site_all_stats"
    /\ get_hourly_site_all_stats("unifi_client", pending.site, pending.start, pending.end)
    /\ Called

CallGetHourlyApAllStats ==
    /\ pc = "call" /\ pending.entry = "get_hourly_ap_all_stats"
    /\ get_hourly_ap_all_stats("unifi_client", pending.site, pending.start, pending.end)
    /\ Called

CallGetHourlyUserAllStats ==
    /\ pc = "call" /\ pending.entry = "get_hourly_user_all_stats"
    /\ get_hourly_user_all_stats("unifi_client", pending.site, pending.start, pending.end)
    /\ Called

CallGetMonthlySiteAllStats ==
    /\ pc = "call" /\ pending.entry = "get_monthly_site_all_stats"
    /\ get_monthly_site_all_stats("unifi_client", pending.site, pending.start, pending.end)
    /\ Called

CallGetMonthlyApAllStats ==
    /\ pc = "call" /\ pending.entry = "get_monthly_ap_all_stats"
    /\ get_monthly_ap_all_stats("unifi_client", pending.site, pending.start, pending.end)
    /\ Called

CallGetMonthlyUserAllStats ==
    /\ pc = "call" /\ pending.entry = "get_monthly_user_all_stats"
    /\ get_monthly_user_all_stats("unifi_client", pending.site, pending.start, pending.end)
    /\ Called

CallGetSiteDpiByApp ==
    /\ pc = "call" /\ pending.entry = "get_site_dpi_by_app"
    /\ get_site_dpi_by_app("unifi_client", pending.site, pending.cats)
    /\ Called

CallGetDpiByApp ==
    /\ pc = "call" /\ pending.entry = "get_dpi_by_app"
    /\ get_dpi_by_app("unifi_client", pending.site, pending.macs, pending.cats, Bodies)
    /\ Called

CallGetDpiByCategory ==
    /\ pc = "call" /\ pending.entry = "get_dpi_by_category"
    /\ get_dpi_by_category("unifi_client", pending.site, pending.macs)
    /\ Called

NextCall ==
    \/ CallGetStatsForSite
    \/ CallGet5minSiteAllStats
    \/ CallGet5minApAllStats
    \/ CallGet5minUserAllStats
    \/ CallGetHourlySiteAllStats
    \/ CallGetHourlyApAllStats
    \/ CallGetHourlyUserAllStats
    \/ CallGetMonthlySiteAllStats
    \/ CallGetMonthlyApAllStats
    \/ CallGetMonthlyUserAllStats
    \/ CallGetSiteDpiByApp
    \/ CallGetDpiByApp
    \/ CallGetDpiByCategory

SpecCall == InitCall /\ [][NextCall]_vars

\* --------------------------------- one get_category_and_application_map call
\* A run of SpecExtract is one extraction on a logged-in client, for every
\* asset of up to MaxAssetLen tokens.
Assets == SeqsUpTo(AssetTokens, MaxAssetLen)

InitExtract ==
    /\ LoggedIn
    /\ asset \in Assets
    /\ pending = [entry |-> "get_category_and_application_map"]
    /\ pc = "call"

CallGetCategoryAndApplicationMap ==
    /\ pc = "call"
    /\ \E build \in AngularBuilds :
           get_category_and_application_map("unifi_client", build)
    /\ Called

NextExtract == CallGetCategoryAndApplicationMap

SpecExtract == InitExtract /\ [][NextExtract]_vars

\* ------------------------------------------------ the module-level script
\* lines 447-462: log in, get_dpi_by_app("default"), extract the maps, then
\* add x_cat and x_app to every by_app entry
StatCats == {13, 4}

StatApps == {13, 999999}

StatEntries == [cat : StatCats, app : StatApps]

Devices == {[by_app |-> st] : st \in SeqsUpTo(StatEntries, MaxStats)}

DpiBodies ==
    {NotJson} \cup {Dumps([data |-> devs]) : devs \in SeqsUpTo(Devices, MaxDevices)}

\* a lookup that answers a missing key with the name of the fallback table
dict_get_unknown(d, key, default) ==
    IF key \in DOMAIN d.items THEN d.items[key] ELSE [name |-> "Unknown"]

\* d.get(key, default)
dict_get(d, key, default) ==
    IF key \in DOMAIN d.items THEN d.items[key] ELSE default

\* line 461: cat_map[stat["cat"]]["name"]
x_cat(map, stat) ==
    IF map.type # "dict"
    THEN [kind |-> "raise", exc |-> "TypeError"]
    ELSE IF stat.cat \notin DOMAIN map.items
    THEN [kind |-> "raise", exc |-> "KeyError"]
    ELSE Return(map.items[stat.cat].name)

\* line 462: app_map.get(stat["app"], {"name": "__unlisted__"})["name"]
x_app(map, stat) ==
    IF map.type # "dict"
    THEN [kind |-> "raise", exc |-> "AttributeError"]
    ELSE Return(dict_get(map, stat.app, [name |-> "__unlisted__"]).name)

\* the inner loop from entry i on: the entries as the loop leaves them and
\* the exception that ended it, if one did
RECURSIVE enrich_by_app(_, _, _, _)
enrich_by_app(by_app, i, cmap, amap) ==
    IF i > Len(by_app)
    THEN [value |-> by_app, error |-> None]
    ELSE LET xc == x_cat(cmap, by_app[i])
         IN IF xc.kind = "raise"
            THEN [value |-> by_app, error |-> Some(xc)]
            ELSE LET with_cat == [x_cat |-> xc.value] @@ by_app[i]
                     xa == x_app(amap, with_cat)
                 IN IF xa.kind = "raise"
                    THEN [value |-> [by_app EXCEPT ![i] = with_cat],
                          error |-> Some(xa)]
                    ELSE enrich_by_app(
                             [by_app EXCEPT ![i] = [x_app |-> xa.value] @@ with_cat],
                             i + 1, cmap, amap)

RECURSIVE enrich_devices(_, _, _, _)
enrich_devices(data, d, cmap, amap) ==
    IF d > Len(data)
    THEN [value |-> data, error |-> None]
    ELSE LET inner == enrich_by_app(data[d].by_app, 1, cmap, amap)
             done == [data EXCEPT ![d] = [by_app |-> inner.value]]
         IN IF inner.error # None
            THEN [value |-> done, error |-> inner.error]
            ELSE enrich_devices(done, d + 1, cmap, amap)

InitScript ==
    /\ unifi_controller_url \in BaseUrls
    /\ clients = [c \in ClientIds |-> None]
    /\ sessions = <<>>
    /\ last = NoCall
    /\ asset \in SampleAssets
    /\ pending = None
    /\ pc = "449"
    /\ app_stats = None
    /\ cat_map = None
    /\ app_map = None

Line449 ==
    /\ pc = "449"
    /\ \E n \in Usernames, p \in Passwords :
           Construct("unifi_client", unifi_controller_url, n, p)
    /\ pc' = IF last'.outcome.kind = "raise" THEN "raised" ELSE "454"
    /\ UNCHANGED <<asset, pending, app_stats, cat_map, app_map>>

Line454 ==
    /\ pc = "454"
    /\ get_dpi_by_app("unifi_client", "default", None, None, DpiBodies)
    /\ IF last'.outcome.kind = "raise"
       THEN pc' = "raised" /\ UNCHANGED app_stats
       ELSE pc' = "458" /\ app_stats' = Some(last'.outcome.value)
    /\ UNCHANGED <<asset, pending, cat_map, app_map>>

Line458 ==
    /\ pc = "458"
    /\ get_category_and_application_map("unifi_client", default_angular_build)
    /\ IF last'.outcome.kind = "raise"
       THEN pc' = "raised" /\ UNCHANGED <<cat_map, app_map>>
       ELSE /\ pc' = "459"
            /\ cat_map' = Some(last'.outcome.value[1])
            /\ app_map' = Some(last'.outcome.value[2])
    /\ UNCHANGED <<asset, pending, app_stats>>

Lines459to462 ==
    /\ pc = "459"
    /\ LET loop == enrich_devices(app_stats[1].data, 1, cat_map[1], app_map[1])
       IN /\ app_stats' = Some([data |-> loop.value])
          /\ pc' = IF loop.error # None THEN "raised" ELSE "465"
          /\ last' = [op |-> "lines 459-462", client |-> "unifi_client",
                      args |-> <<>>, reqs |-> <<>>,
                      outcome |-> IF loop.error # None
                                  THEN loop.error[1]
                                  ELSE Return(PyNone)]
    /\ UNCHANGED <<clientVars, asset, pending, cat_map, app_map>>

NextScript ==
    \/ Line449
    \/ Line454
    \/ Line458
    \/ Lines459to462

SpecScript == InitScript /\ [][NextScript]_vars

\* ------------------------------------------------------------ uri_to_parts
\* A connection URI is the text
\*     [scheme ":"] "//" [username [":" password] "@"] host [":" port]
\* written as the record of its pieces, each piece the text as typed: an
\* absent scheme or host is "", an absent userinfo, password or port is None.
UriSchemes == {"", "http", "https", "HTTPS", "ftp"}

UriUserinfos ==
    {None,
     Some([username |-> "admin", password |-> None]),
     Some([username |-> "admin", password |-> Some("p%40ss%20word")])}

UriHosts == {"", "ctl", "CTL.Example"}

UriPorts == {None, Some(""), Some("8443"), Some("08443"), Some("99999")}

Uris == [scheme : UriSchemes, userinfo : UriUserinfos, host : UriHosts,
         port : UriPorts]

\* str.lower()
lower(text) ==
    CASE text = "HTTPS" -> "https"
      [] text = "CTL.Example" -> "ctl.example"
      [] OTHER -> text

\* int(port, 10) of the port digits
int(text) ==
    CASE text = "8443" -> 8443
      [] text = "08443" -> 8443
      [] text = "99999" -> 99999

\* str() of a port number, and of None
str(value) ==
    CASE value = None -> "None"
      [] value = Some(8443) -> "8443"
      [] value = Some(99999) -> "99999"

\* urllib.parse.unquote of str(password)
unquote(text) ==
    CASE text = "p%40ss%20word" -> "p@ss word"
      [] OTHER -> text

\* SplitResult.port: no digits is None, digits above 65535 raise ValueError
split_port(port) ==
    IF port = None \/ port = Some("")
    THEN Return(None)
    ELSE IF int(port[1]) > 65535
    THEN [kind |-> "raise", exc |-> "ValueError"]
    ELSE Return(Some(int(port[1])))

\* urllib.parse.urlsplit(unifi_uri): the attributes uri_to_parts reads
urlsplit(unifi_uri) ==
    [scheme |-> lower(unifi_uri.scheme),
     hostname |-> IF unifi_uri.host = "" THEN None
                  ELSE Some(lower(unifi_uri.host)),
     port |-> split_port(unifi_uri.port),
     username |-> IF unifi_uri.userinfo = None THEN None
                  ELSE Some(unifi_uri.userinfo[1].username),
     password |-> IF unifi_uri.userinfo = None THEN None
                  ELSE unifi_uri.userinfo[1].password]

\* line 394: scheme + "://" + str(hostname) + ("" or ":" + str(port))
controller_url_of(split_unifi_uri) ==
    split_unifi_uri.scheme \o "://"
        \o (IF split_unifi_uri.hostname = None THEN "None"
            ELSE split_unifi_uri.hostname[1])
        \o (IF split_unifi_uri.port.value = None THEN ""
            ELSE ":" \o str(split_unifi_uri.port.value))

uri_to_parts(unifi_uri) ==
    LET split_unifi_uri == urlsplit(unifi_uri)
    IN IF split_unifi_uri.port.kind = "raise"
       THEN split_unifi_uri.port
       ELSE LET controller_url == controller_url_of(split_unifi_uri)
                username == split_unifi_uri.username
                password == unquote(IF split_unifi_uri.password = None
                                    THEN str(None)
                                    ELSE split_unifi_uri.password[1])
            IN Return(<<controller_url, username, password>>)

\* A run of SpecUri is line 447 on one connection URI: before it the global
\* unifi_controller_url is not assigned (written ""), after it the global is
\* the first part returned.
InitUri ==
    /\ unifi_controller_url = ""
    /\ clients = [c \in ClientIds |-> None]
    /\ sessions = <<>>
    /\ last = NoCall
    /\ asset = WellFormedAsset
    /\ pending \in {[entry |-> "uri_to_parts", unifi_uri |-> u] : u \in Uris}
    /\ pc = "447"
    /\ app_stats = None
    /\ cat_map = None
    /\ app_map = None

Line447 ==
    /\ pc = "447"
    /\ LET parts == uri_to_parts(pending.unifi_uri)
       IN /\ last' = [op |-> "uri_to_parts", client |-> "none",
                      args |-> [unifi_uri |-> pending.unifi_uri],
                      reqs |-> <<>>, outcome |-> parts]
          /\ IF parts.kind = "raise"
             THEN pc' = "raised" /\ UNCHANGED unifi_controller_url
             ELSE pc' = "449" /\ unifi_controller_url' = parts.value[1]
    /\ UNCHANGED <<clients, sessions, asset, pending, app_stats, cat_map, app_map>>

NextUri == Line447

SpecUri == InitUri /\ [][NextUri]_vars

\* ================================================================ claims
ReadOperations ==
    {"get_sites", "get_devices_for_site", "get_stats_for_site",
     "get_active_clients", "get_known_clients", "get_ddns_information",
     "get_site_dpi_by_app", "get_site_dpi_by_category", "get_dpi_by_app",
     "get_dpi_by_category"}

SiteOperations == ReadOperations \ {"get_sites"}

ValueErrorRaised ==
    last.outcome.kind = "raise" /\ last.outcome.exc = "ValueError"

\* the endpoint error of the request contract: the URL, the status, 200
EndpointErrorRaised(o, req) ==
    /\ o.kind = "raise"
    /\ o.exc = "UnifiAPIClientException"
    /\ o.endpoint = req.url
    /\ o.status = req.status
    /\ o.expected = 200
    /\ "value" \notin DOMAIN o

\* C1: constructing a client sends exactly one request, the login POST; a
\* login status other than 200 raises and binds no client to the session
\* that was created; every bound client holds a session whose login was
\* answered 200, and every request of a read operation goes through such
\* a session.
C1_LoginBeforeEveryRequest ==
    /\ last.op = "__init__" =>
         /\ Len(last.reqs) = 1
         /\ last.reqs[1].method = "POST"
         /\ last.reqs[1].url = unifi_controller_url \o "/api/login"
         /\ last.reqs[1].session = Len(sessions)
         /\ last.reqs[1].status # 200 =>
              /\ last.outcome.kind = "raise"
              /\ \A c \in ClientIds :
                     clients[c] # None =>
                         clients[c][1]._controller_requests_session
                             # last.reqs[1].session
    /\ \A c \in ClientIds :
           clients[c] # None =>
               sessions[clients[c][1]._controller_requests_session].login = 200
    /\ last.op \in ReadOperations =>
           \A i \in 1..Len(last.reqs) :
               /\ last.reqs[i].session
                      = clients[last.client][1]._controller_requests_session
               /\ sessions[last.reqs[i].session].login = 200

\* a read request went out after one login had failed and another succeeded
C1_Witness ==
    /\ last.op = "get_devices_for_site"
    /\ Len(last.reqs) = 1
    /\ \E s \in 1..Len(sessions) : sessions[s].login # 200

\* C2: a read operation that reaches the wire issues exactly one request;
\* with status 200 it returns the document parsed from the response body,
\* with any other status it raises an error naming the URL requested, the
\* status and the expected 200, and returns nothing.
C2_RequestContract ==
    (last.op \in ReadOperations /\ ~ValueErrorRaised) =>
        /\ Len(last.reqs) = 1
        /\ (last.reqs[1].status = 200 /\ last.reqs[1].body.text = "json") =>
               last.outcome = [kind |-> "return", value |-> last.reqs[1].body.doc]
        /\ last.reqs[1].status # 200 =>
               EndpointErrorRaised(last.outcome, last.reqs[1])

\* a POST operation was answered 401 and raised the endpoint error
C2_Witness ==
    /\ last.op = "get_dpi_by_app"
    /\ last.reqs[1].status = 401
    /\ last.outcome.kind = "raise"

\* C3: get_stats_for_site passes validation exactly when the interval is
\* one of 5minutes, hourly, daily, the element type one of site, user, ap
\* and every attribute in the vocabulary; when it does not pass, the call
\* raises a ValueError and has issued no request, and when it passes it
\* issues its request.
C3_ValidationIff ==
    (pc = "called" /\ pending.entry = "get_stats_for_site") =>
        LET valid ==
              /\ pending.interval \in {"5minutes", "hourly", "daily"}
              /\ pending.element_type \in {"site", "user", "ap"}
              /\ \A i \in 1..Len(pending.stat_attributes) :
                     pending.stat_attributes[i] \in
                         {"bytes", "wan-tx_bytes", "wan-rx_bytes", "wlan_bytes",
                          "num_sta", "lan-num_sta", "wlan-num_sta", "time",
                          "rx_bytes", "tx_bytes"}
        IN /\ valid <=> ~ValueErrorRaised
           /\ ~valid => last.reqs = <<>>
           /\ valid => Len(last.reqs) = 1

\* interval and element type are fine, the second attribute is not: refused
\* with no request sent
C3_Witness ==
    /\ pc = "called"
    /\ pending.entry = "get_stats_for_site"
    /\ pending.interval = "daily"
    /\ pending.element_type = "ap"
    /\ pending.stat_attributes = <<"bytes", "bogus">>
    /\ ValueErrorRaised
    /\ last.reqs = <<>>

\* C4: an operation that raises (a status other than 200, or a validation
\* failure) leaves the client's fields, its session and the base URL as
\* they were, and the next operation on the same client that is answered
\* 200 with a JSON body returns that body.
C4_ErrorIsFatalToTheCallOnly ==
    [][ /\ (last'.op \in ReadOperations /\ last'.outcome.kind = "raise") =>
              /\ clients' = clients
              /\ sessions' = sessions
              /\ unifi_controller_url' = unifi_controller_url
        /\ (/\ last.op \in ReadOperations
            /\ last.outcome.kind = "raise"
            /\ last'.op \in ReadOperations
            /\ last'.client = last.client
            /\ Len(last'.reqs) = 1
            /\ last'.reqs[1].status = 200
            /\ last'.reqs[1].body.text = "json") =>
              last'.outcome = [kind |-> "return", value |-> last'.reqs[1].body.doc]
        /\ (last.op \in ReadOperations /\ last.outcome.kind = "raise") =>
              /\ clients[last.client] # None
              /\ ENABLED get_sites(last.client)
      ]_vars

\* a read operation answered 500 has raised and its client is still bound
\* to the session it logged in with
C4_Witness ==
    /\ last.op \in ReadOperations
    /\ last.outcome.kind = "raise"
    /\ Len(last.reqs) = 1
    /\ last.reqs[1].status = 500
    /\ clients[last.client] # None
    /\ sessions[clients[last.client][1]._controller_requests_session].login = 200

\* the number of fragments the pattern of line 421 finds in the served asset
FragmentsFound ==
    LET m == re_match(jsbeautifier_beautify(asset))
    IN IF m = None THEN 0 ELSE Len(m[1])

\* C5: when the asset was fetched with status 200 and the pattern does not
\* find exactly two fragments in it, the call raises the extractor's error
\* naming the asset URL and the number of fragments found.
C5_FragmentCountError ==
    (/\ pc = "called"
     /\ last.op = "get_category_and_application_map"
     /\ last.reqs[1].status = 200
     /\ FragmentsFound # 2) =>
        /\ last.outcome.kind = "raise"
        /\ last.outcome.exc = "UnifiAPIClientException"
        /\ last.outcome.endpoint = last.reqs[1].url
        /\ last.outcome.found = FragmentsFound

\* C6: one extraction issues one request and ends either with both maps or
\* with an exception; a fetch status other than 200 raises the error that
\* names the asset URL, the status and the expected 200, whatever the asset
\* holds, and returns no map.
C6_FetchFailureRaises ==
    (pc = "called" /\ last.op = "get_category_and_application_map") =>
        /\ Len(last.reqs) = 1
        /\ last.outcome.kind \in {"return", "raise"}
        /\ last.outcome.kind = "return" => Len(last.outcome.value) = 2
        /\ last.reqs[1].status # 200 =>
               EndpointErrorRaised(last.outcome, last.reqs[1])

\* the fetch was answered 500 although the asset holds both fragments
C6_Witness ==
    /\ pc = "called"
    /\ last.op = "get_category_and_application_map"
    /\ last.reqs[1].status = 500
    /\ FragmentsFound = 2
    /\ last.outcome.kind = "raise"

\* the by_app entries of the script's app_stats, in one sequence
RECURSIVE AllEntries(_, _)
AllEntries(data, d) ==
    IF d > Len(data) THEN <<>> ELSE data[d].by_app \o AllEntries(data, d + 1)

ScriptEntries == AllEntries(app_stats[1].data, 1)

\* C7: once the loop of lines 459-462 has run, every entry that got x_app
\* has the name of its application id in app_map when the id is a key and
\* "__unlisted__" when it is not; the lookup of line 462 never raises, so an
\* entry that got x_cat got x_app too; an entry with cat=13 and app=999999
\* under a map that names 13 "Web" has x_cat="Web" and x_app="__unlisted__";
\* and a loop that ends without an exception has enriched every entry.
C7_UnknownApplicationIsUnlisted ==
    last.op = "lines 459-462" =>
        /\ \A i \in 1..Len(ScriptEntries) :
             LET stat == ScriptEntries[i]
             IN /\ "x_app" \in DOMAIN stat =>
                     IF stat.app \in DOMAIN app_map[1].items
                     THEN stat.x_app = app_map[1].items[stat.app].name
                     ELSE stat.x_app = "__unlisted__"
                /\ "x_cat" \in DOMAIN stat => "x_app" \in DOMAIN stat
                /\ pc = "465" => "x_app" \in DOMAIN stat
                /\ (/\ "x_cat" \in DOMAIN stat
                    /\ stat.cat = 13 /\ stat.app = 999999
                    /\ 13 \in DOMAIN cat_map[1].items
                    /\ cat_map[1].items[13].name = "Web") =>
                       stat.x_cat = "Web" /\ stat.x_app = "__unlisted__"
        /\ last.outcome.kind = "raise" => last.outcome.exc \in {"KeyError", "TypeError"}

\* two device records, one entry each with cat=13: one application id the
\* map knows, one it does not
C7_Witness ==
    /\ pc = "465"
    /\ Len(ScriptEntries) = 2
    /\ \E i \in 1..2 :
           /\ ScriptEntries[i].app = 999999
           /\ ScriptEntries[i].x_cat = "Web"
           /\ ScriptEntries[i].x_app = "__unlisted__"
    /\ \E i \in 1..2 :
           /\ ScriptEntries[i].app = 13
           /\ ScriptEntries[i].x_app = "Web"

\* the URLs of the site-scoped GET and DPI operations for the empty site
EmptySiteUrls ==
    {unifi_controller_url \o "/api/s//stat/device",
     unifi_controller_url \o "/api/s//stat/sta",
     unifi_controller_url \o "/api/s//rest/user",
     unifi_controller_url \o "/api/s//stat/dynamicdns",
     unifi_controller_url \o "/api/s//stat/sitedpi",
     unifi_controller_url \o "/api/s//stat/stadpi"}

StatArgumentsValid(args) ==
    /\ args.interval \in {"5minutes", "hourly", "daily"}
    /\ args.element_type \in {"site", "user", "ap"}
    /\ \A i \in 1..Len(args.stat_attributes) :
           InList(args.stat_attributes[i], all_stat_attributes)

FiveMinuteWrappers ==
    {"get_5min_site_all_stats", "get_5min_ap_all_stats", "get_5min_user_all_stats"}

HourlyWrappers ==
    {"get_hourly_site_all_stats", "get_hourly_ap_all_stats", "get_hourly_user_all_stats"}

MonthlyWrappers ==
    {"get_monthly_site_all_stats", "get_monthly_ap_all_stats", "get_monthly_user_all_stats"}

\* C9: every wrapper passes its own interval and element type and the ten
\* attributes of the vocabulary, with the caller's site and bounds; the
\* 5-minute and hourly wrappers pass validation and issue one request, the
\* monthly wrappers raise the ValueError with no request issued.
C9_MonthlyWrappersAlwaysFail ==
    (pc = "called"
       /\ pending.entry \in FiveMinuteWrappers \cup HourlyWrappers \cup MonthlyWrappers) =>
        /\ last.op = pending.entry
        /\ last.args.site = pending.site
        /\ last.args.start = pending.start
        /\ last.args.end = pending.end
        /\ last.args.stat_attributes =
               <<"bytes", "wan-tx_bytes", "wan-rx_bytes", "wlan_bytes", "num_sta",
                 "lan-num_sta", "wlan-num_sta", "time", "rx_bytes", "tx_bytes">>
        /\ last.args.interval =
               (IF pending.entry \in FiveMinuteWrappers THEN "5minutes"
                ELSE IF pending.entry \in HourlyWrappers THEN "hourly"
                ELSE "monthly")
        /\ last.args.element_type =
               (IF pending.entry \in {"get_5min_site_all_stats",
                        "get_hourly_site_all_stats", "get_monthly_site_all_stats"}
                THEN "site"
                ELSE IF pending.entry \in {"get_5min_ap_all_stats",
                        "get_hourly_ap_all_stats", "get_monthly_ap_all_stats"}
                THEN "ap"
                ELSE "user")
        /\ pending.entry \in FiveMinuteWrappers \cup HourlyWrappers =>
               Len(last.reqs) = 1 /\ ~ValueErrorRaised
        /\ pending.entry \in MonthlyWrappers =>
               last.reqs = <<>> /\ ValueErrorRaised

\* a monthly wrapper called with a site and both bounds has raised
C9_Witness ==
    /\ pc = "called"
    /\ pending.entry = "get_monthly_site_all_stats"
    /\ pending.site = "default"
    /\ pending.start # None
    /\ pending.end # None
    /\ ValueErrorRaised
    /\ last.reqs = <<>>

\* C10: the extractor issues its one request outside every session, leaves
\* the clients, the sessions and the base URL as they were, and the read
\* operations leave the asset and the base URL as they were.
C10_ExtractorSharesNothing ==
    [][ /\ last'.op = "get_category_and_application_map" =>
              /\ Len(last'.reqs) = 1
              /\ last'.reqs[1].session \notin 1..Len(sessions')
              /\ clients' = clients
              /\ sessions' = sessions
              /\ unifi_controller_url' = unifi_controller_url
        /\ last'.op \in ReadOperations =>
              /\ asset' = asset
              /\ unifi_controller_url' = unifi_controller_url
      ]_vars

\* an extraction returned both maps on a client that holds a logged-in session
C10_Witness ==
    /\ last.op = "get_category_and_application_map"
    /\ last.outcome.kind = "return"
    /\ clients[last.client] # None
    /\ last.reqs[1].session = NoSession

\* C11: every endpoint uri_to_parts produces has scheme http or https (a
\* connection URI with another scheme, or none, yields no endpoint), and its
\* base URL is scheme://host, then ":" and the port only when the URI has
\* one, with the credentials left out.
C11_EndpointSchemeIsHttp ==
    last.op = "uri_to_parts" =>
        LET unifi_uri == last.args.unifi_uri
            scheme == lower(unifi_uri.scheme)
        IN /\ scheme \notin {"http", "https"} => last.outcome.kind # "return"
           /\ last.outcome.kind = "return" =>
                  /\ scheme \in {"http", "https"}
                  /\ unifi_uri.host # "" =>
                         last.outcome.value[1] =
                             scheme \o "://" \o lower(unifi_uri.host)
                                 \o (IF unifi_uri.port \in {None, Some("")}
                                     THEN ""
                                     ELSE ":" \o str(Some(int(unifi_uri.port[1]))))

\* the paths the operations append to a base URL
EndpointPaths ==
    {"/api/login", "/api/self/sites"}
    \cup {"/api/s/" \o site \o tail :
            site \in Sites,
            tail \in {"/stat/device", "/stat/sta", "/rest/user",
                      "/stat/spectrumscan", "/stat/dynamicdns",
                      "/stat/sitedpi", "/stat/stadpi"}}
    \cup {"/api/s/" \o site \o "/stat/report/" \o interval \o "." \o element_type :
            site \in Sites, interval \in Intervals, element_type \in ElementTypes}
    \cup {"/manage/angular/" \o build \o "/js/dynamic.dpi.js" :
            build \in AngularBuilds}

\* the base URL the client of the last call was constructed with
OwnBaseUrl ==
    IF last.op = "__init__"
    THEN last.args.controller_url
    ELSE clients[last.client][1]._controller_url

\* C12: every request of a client (the login and every operation) goes to
\* the base URL passed to that client's constructor, never to another
\* client's or to a process-wide value.
C12_RequestsTargetOwnBaseUrl ==
    \A i \in 1..Len(last.reqs) :
        last.reqs[i].url \in {OwnBaseUrl \o path : path \in EndpointPaths}

\* the two fragments the pattern of line 421 captures in the served asset
Fragments == re_match(jsbeautifier_beautify(asset))[1]

\* C13: on every successful extraction both returned maps are the parse of
\* the first (categories) fragment: the application map equals the category
\* map, and the second (applications) fragment has no part in the result.
C13_BothMapsFromFirstFragment ==
    (/\ pc = "called"
     /\ last.op = "get_category_and_application_map"
     /\ last.outcome.kind = "return") =>
        /\ last.outcome.value[2] = last.outcome.value[1]
        /\ last.outcome.value[1] = yaml_load(Fragments[1]).value

\* an extraction returned a dict for both maps from an asset whose second
\* fragment parses to something else
C13_Witness ==
    /\ pc = "called"
    /\ last.op = "get_category_and_application_map"
    /\ last.outcome.kind = "return"
    /\ last.outcome.value[1].type = "dict"
    /\ last.outcome.value[2].type = "dict"
    /\ yaml_load(Fragments[2]) # yaml_load(Fragments[1])

====
